---- MODULE Spec2Model ----
(***************************************************************************)
(* Model of src/src/download_data.py: the archive resolver and fetch loop  *)
(* of load_nba_data, the matchup identifier (collect_team_abbrevs,         *)
(* finals_game_ids_1997), the Kerr search (find_kerr_make_in_game) and the *)
(* stage sequence of main.                                                 *)
(*                                                                         *)
(* Text is modelled as TLA+ strings and the string operations of the code  *)
(* (split, upper, strip, "in", the regular expressions) are computed       *)
(* character by character.  A missing cell (NaN) is the value NA.          *)
(* Columns whose presence the code tests ("c in df.columns") are optional; *)
(* PERIOD, EVENTNUM and __archive_name are present in every fetched row.   *)
(***************************************************************************)
EXTENDS Integers, Sequences, FiniteSets, TLC

VARIABLES
    pc,              \* position in main / load_nba_data
    cfg,             \* arguments of load_nba_data: seasons, data, seasontype
    remote,          \* the remote side: manifest text and url -> response
    need_data,       \* load_nba_data: artifact keys
    need_name,       \* load_nba_data: manifest names kept
    need_element,    \* load_nba_data: urls kept
    fetchlog,        \* GET requests issued for archives, in order
    table,           \* the working table: [columns, rows]
    files,           \* output files written so far: name -> rows
    team_sets,       \* collect_team_abbrevs: GAME_ID -> set of codes
    todo,            \* remaining iterations of the current loop
    finals_gids,     \* finals_game_ids_1997's result
    searched,        \* per game: the rows handed to find_kerr_make_in_game
    game6_candidates,\* main: hit tables collected so far
    report,          \* what main printed last: preview rows or the warning
    result           \* how the run ended: [exit, raised], exit NaN while it runs

vars == <<pc, cfg, remote, need_data, need_name, need_element, fetchlog, table,
          files, team_sets, todo, finals_gids, searched, game6_candidates,
          report, result>>

(***************************************************************************)
(* Bounds of the model.                                                    *)
(***************************************************************************)
MaxLines == 3        \* lines of the manifest
MaxShots == 7        \* made-shot rows in the last two minutes of game 2
MaxTeamRows == 2     \* rows of the table of SpecTeams
MaxKerrRows == 1     \* rows after the tip-off rows in the table of SpecKerr

(***************************************************************************)
(* Python string operations.                                               *)
(***************************************************************************)
NA == "<NA>"

Range(s) == {s[i] : i \in DOMAIN s}

CharAt(s, i) == SubSeq(s, i, i)

\* p in t
Contains(p, t) ==
    \E i \in 1..(Len(t) - Len(p) + 1) : SubSeq(t, i, i + Len(p) - 1) = p

\* index of the first occurrence of the one-character string c in s, 0 if none
FirstIndex(c, s) ==
    IF \E i \in 1..Len(s) : CharAt(s, i) = c
    THEN CHOOSE i \in 1..Len(s) :
            /\ CharAt(s, i) = c
            /\ \A j \in 1..(i - 1) : CharAt(s, j) # c
    ELSE 0

\* s.split(c)
RECURSIVE Split(_, _)
Split(s, c) ==
    LET i == FirstIndex(c, s)
    IN  IF i = 0 THEN <<s>>
        ELSE <<SubSeq(s, 1, i - 1)>> \o Split(SubSeq(s, i + 1, Len(s)), c)

\* sep.join(parts)
RECURSIVE Join(_, _)
Join(sep, parts) ==
    IF parts = <<>> THEN ""
    ELSE IF Len(parts) = 1 THEN parts[1]
    ELSE parts[1] \o sep \o Join(sep, Tail(parts))

\* [x for x in s if P(x)]
RECURSIVE SelectIdx(_, _, _)
SelectIdx(s, keep, i) ==
    IF i > Len(s) THEN <<>>
    ELSE (IF keep[i] THEN <<s[i]>> ELSE <<>>) \o SelectIdx(s, keep, i + 1)

Digits == <<"0", "1", "2", "3", "4", "5", "6", "7", "8", "9">>

\* str(n) of a natural number
RECURSIVE Str(_)
Str(n) == IF n < 10 THEN Digits[n + 1] ELSE Str(n \div 10) \o Digits[(n % 10) + 1]

(***************************************************************************)
(* load_nba_data: artifact keys (lines 77-85).                             *)
(***************************************************************************)
\* itertools.product(data, seasons): data outer, seasons inner
Product(data, seasons) ==
    [k \in 1..(Len(data) * Len(seasons)) |->
        <<data[((k - 1) \div Len(seasons)) + 1], seasons[((k - 1) % Len(seasons)) + 1]>>]

KeyRg(d, s) == d \o "_" \o Str(s)

KeyTyped(d, seasontype, s) == d \o "_" \o seasontype \o "_" \o Str(s)

BuildNeedData(data, seasons, seasontype) ==
    LET prod == Product(data, seasons)
        rg == [k \in DOMAIN prod |-> KeyRg(prod[k][1], prod[k][2])]
        ty == [k \in DOMAIN prod |-> KeyTyped(prod[k][1], seasontype, prod[k][2])]
    IN  IF seasontype = "rg" THEN rg
        ELSE IF seasontype = "po" THEN ty
        ELSE rg \o ty

(***************************************************************************)
(* load_nba_data: manifest (lines 87-94).                                  *)
(***************************************************************************)
ManifestLines(v) == SelectIdx(Split(v, "\n"),
                              [i \in DOMAIN Split(v, "\n") |-> Contains("=", Split(v, "\n")[i])], 1)

name_v(v) == [i \in DOMAIN ManifestLines(v) |-> Split(ManifestLines(v)[i], "=")[1]]

element_v(v) == [i \in DOMAIN ManifestLines(v) |-> Split(ManifestLines(v)[i], "=")[2]]

NeedName(v, need) ==
    SelectIdx(name_v(v), [i \in DOMAIN name_v(v) |-> name_v(v)[i] \in Range(need)], 1)

NeedElement(v, need) ==
    SelectIdx(element_v(v), [i \in DOMAIN name_v(v) |-> name_v(v)[i] \in Range(need)], 1)

(***************************************************************************)
(* Text normalisation and the regular expressions of the code.             *)
(***************************************************************************)
LowerAlpha == "abcdefghijklmnopqrstuvwxyz"

UpperAlpha == "ABCDEFGHIJKLMNOPQRSTUVWXYZ"

UpperSet == {CharAt(UpperAlpha, i) : i \in 1..Len(UpperAlpha)}

WordSet == UpperSet \cup {CharAt(LowerAlpha, i) : i \in 1..Len(LowerAlpha)}
                    \cup Range(Digits) \cup {"_"}

SpaceSet == {" ", "\t", "\n", "\r"}

UpperChar(c) ==
    IF \E i \in 1..Len(LowerAlpha) : CharAt(LowerAlpha, i) = c
    THEN CharAt(UpperAlpha, CHOOSE i \in 1..Len(LowerAlpha) : CharAt(LowerAlpha, i) = c)
    ELSE c

\* s.upper()
RECURSIVE Upper(_)
Upper(s) == IF s = "" THEN "" ELSE UpperChar(CharAt(s, 1)) \o Upper(SubSeq(s, 2, Len(s)))

\* s.strip()
RECURSIVE Strip(_)
Strip(s) ==
    IF s = "" THEN ""
    ELSE IF CharAt(s, 1) \in SpaceSet THEN Strip(SubSeq(s, 2, Len(s)))
    ELSE IF CharAt(s, Len(s)) \in SpaceSet THEN Strip(SubSeq(s, 1, Len(s) - 1))
    ELSE s

\* astype(str) of a cell
AsStr(v) == IF v = NA THEN "nan" ELSE v

\* re.fullmatch(r"[A-Z]{2,4}", v)
IsTricode(v) ==
    /\ Len(v) \in 2..4
    /\ \A i \in 1..Len(v) : CharAt(v, i) \in UpperSet

\* \b between characters k and k+1 of t (k = 0 is the start, k = Len(t) the end)
Boundary(t, k) ==
    ((k >= 1) /\ (CharAt(t, k) \in WordSet)) #
    ((k < Len(t)) /\ (CharAt(t, k + 1) \in WordSet))

\* w occurs in t at position i
At(t, w, i) == (i >= 1) /\ (i + Len(w) - 1 <= Len(t)) /\ (SubSeq(t, i, i + Len(w) - 1) = w)

\* re.search(r"\bw\b", t)
HasWord(t, w) ==
    \E i \in 1..Len(t) : At(t, w, i) /\ Boundary(t, i - 1) /\ Boundary(t, i + Len(w) - 1)

\* str.contains(r"\bSTEVE\s+KERR\b", case=False)
MatchSteveKerr(v) ==
    LET t == Upper(v)
    IN  \E i \in 1..Len(t) : \E n \in 1..Len(t) :
            /\ Boundary(t, i - 1)
            /\ At(t, "STEVE", i)
            /\ \A k \in (i + 5)..(i + 4 + n) : k <= Len(t) /\ CharAt(t, k) \in SpaceSet
            /\ At(t, "KERR", i + 5 + n)
            /\ Boundary(t, i + 8 + n)

\* the first alternative: \bKERR\b.*\bMADE
MatchKerrMade(t) ==
    \E i \in 1..Len(t) : \E j \in 1..Len(t) :
        /\ At(t, "KERR", i) /\ Boundary(t, i - 1) /\ Boundary(t, i + 3)
        /\ j >= i + 4
        /\ \A k \in (i + 4)..(j - 1) : CharAt(t, k) # "\n"
        /\ Boundary(t, j - 1) /\ At(t, "MADE", j)

\* str.contains(r"\bKERR\b.*\bMADE|\bMAKES\b|\bJUMPER\b|\b2-PT\b|\b2PT\b", case=False)
MatchMadeShot(v) ==
    LET t == Upper(v)
    IN  \/ MatchKerrMade(t)
        \/ HasWord(t, "MAKES")
        \/ HasWord(t, "JUMPER")
        \/ HasWord(t, "2-PT")
        \/ HasWord(t, "2PT")

\* str.match(r"^\d+:\d{2}$")
MatchClock(v) ==
    LET i == FirstIndex(":", v)
    IN  /\ i >= 2
        /\ Len(v) = i + 2
        /\ \A k \in (1..Len(v)) \ {i} : CharAt(v, k) \in Range(Digits)

DigitVal(c) == (CHOOSE k \in 1..10 : Digits[k] = c) - 1

\* int(s) of a string of digits
RECURSIVE ParseInt(_)
ParseInt(s) ==
    IF Len(s) = 1 THEN DigitVal(s)
    ELSE 10 * ParseInt(SubSeq(s, 1, Len(s) - 1)) + DigitVal(CharAt(s, Len(s)))

\* lambda x: int(x[0]) * 60 + int(x[1]) on PCTIMESTRING.split(":")
SecLeft(v) == ParseInt(Split(v, ":")[1]) * 60 + ParseInt(Split(v, ":")[2])

(***************************************************************************)
(* Tables.  A frame is [columns |-> set of column names, rows |-> sequence *)
(* of rows]; a row carries every modelled column, NA (text) or NaN         *)
(* (number) where the frame has no such column or the cell is empty.       *)
(* GAME_ID, PERIOD, EVENTNUM and EVENTMSGTYPE are integer columns.         *)
(***************************************************************************)
NaN == -1

\* the order of the columns in a frame
ColumnOrder == <<"GAME_ID", "EVENTNUM", "EVENTMSGTYPE", "PERIOD", "PCTIMESTRING",
                 "HOMEDESCRIPTION", "VISITORDESCRIPTION", "PLAYER1_NAME",
                 "PLAYER1_TEAM_CITY", "PLAYER1_TEAM_ABBREVIATION",
                 "PLAYER2_TEAM_ABBREVIATION", "__archive_name", "__sec_left", "__GAME_ID">>

NoFrame == [columns |-> {}, rows |-> <<>>]

\* df[mask]
Filter(rows, keep) == SelectIdx(rows, keep, 1)

\* [c for c in cols if c in df.columns]
Present(cols, columns) == SelectIdx(cols, [i \in DOMAIN cols |-> cols[i] \in columns], 1)

\* lexicographic order of two integer tuples, NaN last
RECURSIVE LexLess(_, _)
LexLess(a, b) ==
    IF a = <<>> THEN FALSE
    ELSE IF a[1] = b[1] THEN LexLess(Tail(a), Tail(b))
    ELSE IF a[1] = NaN THEN FALSE
    ELSE IF b[1] = NaN THEN TRUE
    ELSE a[1] < b[1]

\* df.sort_values(by): stable, keys[i] is the key tuple of rows[i]
SortValues(rows, keys) ==
    LET n == Len(rows)
        pos(i) == 1 + Cardinality({j \in 1..n : \/ LexLess(keys[j], keys[i])
                                               \/ (keys[j] = keys[i] /\ j < i)})
    IN  [p \in 1..n |-> rows[CHOOSE i \in 1..n : pos(i) = p]]

\* df.drop_duplicates(): the first of equal rows is kept
DropDuplicates(rows) ==
    Filter(rows, [i \in DOMAIN rows |-> \A j \in 1..(i - 1) : rows[j] # rows[i]])

\* df.tail(n)
TailRows(rows, n) ==
    IF Len(rows) <= n THEN rows ELSE SubSeq(rows, Len(rows) - n + 1, Len(rows))

\* sorted(set(xs)) of integers
SortedSet(S) ==
    [p \in 1..Cardinality(S) |-> CHOOSE x \in S : Cardinality({y \in S : y < x}) = p - 1]

\* s.str.contains(f"_{SEASON_TYPE}_{s}$")
EndsWith(t, suffix) ==
    Len(t) >= Len(suffix) /\ SubSeq(t, Len(t) - Len(suffix) + 1, Len(t)) = suffix

(***************************************************************************)
(* Matchup identifier (lines 139-178).                                     *)
(***************************************************************************)
TEAM_COL_CANDIDATES == <<"PLAYER1_TEAM_ABBREVIATION", "PLAYER2_TEAM_ABBREVIATION",
                         "PLAYER3_TEAM_ABBREVIATION", "TEAM_ABBREVIATION",
                         "PLAYER1_TEAM_CITY", "PLAYER2_TEAM_CITY", "PLAYER3_TEAM_CITY">>

DESC_COLS == <<"HOMEDESCRIPTION", "VISITORDESCRIPTION", "NEUTRALDESCRIPTION">>

\* the rows of one game
GameRows(rows, gid) == Filter(rows, [i \in DOMAIN rows |-> rows[i].GAME_ID = gid])

\* g[c].dropna().astype(str)
ColumnText(g, c) ==
    LET kept == Filter(g, [i \in DOMAIN g |-> g[i][c] # NA])
    IN  [i \in DOMAIN kept |-> kept[i][c]]

\* the tricodes one explicit column yields (lines 160-162)
ColumnCodes(g, c) ==
    {v \in {Strip(Upper(x)) : x \in Range(ColumnText(g, c))} : IsTricode(v)}

\* lines 159-162: the codes of the explicit team columns
ExplicitCodes(df, g) ==
    UNION {ColumnCodes(g, c) : c \in Range(Present(TEAM_COL_CANDIDATES, df.columns))}

\* lines 167-168
MentionsCHI(txt) ==
    \/ Contains(" CHI ", " " \o txt \o " ")
    \/ Contains(" CHI.", txt)
    \/ Contains(" CHI,", txt)

\* lines 169-170
MentionsUTA(txt) ==
    \/ Contains(" UTA ", " " \o txt \o " ")
    \/ Contains(" UTAH", txt)
    \/ Contains(" UTA,", txt)

\* line 166
DescText(g, dcol) == Upper(Join(" ", ColumnText(g, dcol)))

\* lines 165-170: the codes mined from the description columns
FallbackCodes(df, g) ==
    LET dcols == Range(Present(DESC_COLS, df.columns))
    IN  (IF \E d \in dcols : MentionsCHI(DescText(g, d)) THEN {"CHI"} ELSE {})
        \cup
        (IF \E d \in dcols : MentionsUTA(DescText(g, d)) THEN {"UTA"} ELSE {})

\* the body of the groupby loop (lines 158-171)
GameTeams(df, g) ==
    IF ExplicitCodes(df, g) # {} THEN ExplicitCodes(df, g) ELSE FallbackCodes(df, g)

\* df.groupby("GAME_ID"): the game identifiers, NaN keys dropped
GroupKeys(rows) == {rows[i].GAME_ID : i \in DOMAIN rows} \ {NaN}

collect_team_abbrevs(df) ==
    [gid \in GroupKeys(df.rows) |-> GameTeams(df, GameRows(df.rows, gid))]

\* a game is kept when either code is seen
IsMatchAny(teams) == {"CHI", "UTA"} \cap teams # {}

\* line 177: the test a game passes to be kept
IsMatch(teams) == {"CHI", "UTA"} \subseteq teams

finals_game_ids_1997(df) ==
    LET sets == collect_team_abbrevs(df)
    IN  SortedSet({gid \in DOMAIN sets : IsMatch(sets[gid])})

(***************************************************************************)
(* Kerr search (lines 180-204).                                            *)
(***************************************************************************)
IsNameCol(c) == Contains("PLAYER", c) /\ Contains("NAME", c)

\* the rows of df_game whose column c matches (lines 188 and 194)
NameHits(rows, c) ==
    Filter(rows, [i \in DOMAIN rows |-> MatchSteveKerr(AsStr(rows[i][c]))])

DescHits(rows, c) ==
    Filter(rows, [i \in DOMAIN rows |-> MatchMadeShot(AsStr(rows[i][c]))])

RECURSIVE Concat(_)
Concat(parts) == IF parts = <<>> THEN <<>> ELSE parts[1] \o Concat(Tail(parts))

\* the rows returned; <<>> stands for None
find_kerr_make_in_game(df_game) ==
    LET cols == Present(ColumnOrder, df_game.columns)
        name_cols == Filter(cols, [i \in DOMAIN cols |-> IsNameCol(cols[i])])
        desc_cols == Present(DESC_COLS, df_game.columns)
        candidates ==
            [i \in DOMAIN name_cols |-> NameHits(df_game.rows, name_cols[i])]
            \o [i \in DOMAIN desc_cols |-> DescHits(df_game.rows, desc_cols[i])]
        out == DropDuplicates(Concat(candidates))
    IN  IF "EVENTMSGTYPE" \in df_game.columns
        THEN SortValues(out, [i \in DOMAIN out |-> <<out[i].EVENTMSGTYPE, out[i].EVENTNUM>>])
        ELSE out

(***************************************************************************)
(* Configuration (lines 34-38) and output names.                           *)
(***************************************************************************)
SEASONS == <<1996>>

DATA_TYPES == <<"nbastats">>

SEASON_TYPE == "po"

FinalsFile == "pbp_1997_finals_chi_uta.csv"

\* line 234
SeasonFile(s) == "pbp_" \o Str(s) \o "_" \o Str(s + 1) \o "_playoffs.csv"

\* lines 232 and 239: df["__archive_name"].str.contains(f"_{SEASON_TYPE}_{s}$")
SeasonRows(rows, s) ==
    Filter(rows, [i \in DOMAIN rows |->
        EndsWith(rows[i]["__archive_name"], "_" \o SEASON_TYPE \o "_" \o Str(s))])

IntColumns == {"GAME_ID", "EVENTNUM", "EVENTMSGTYPE", "PERIOD", "__sec_left", "__GAME_ID"}

\* a row of a frame that lacks some columns: their cells are empty
Blank(r, columns) ==
    [c \in DOMAIN r |-> IF c \in columns THEN r[c]
                        ELSE IF c \in IntColumns THEN NaN ELSE NA]

\* lines 117-120: read_csv, tag with the archive name, concat
Tagged(frame, name) ==
    [columns |-> frame.columns \cup {"__archive_name"},
     rows |-> [i \in DOMAIN frame.rows |->
                 [Blank(frame.rows[i], frame.columns) EXCEPT !["__archive_name"] = name]]]

ConcatFrames(a, b) == [columns |-> a.columns \cup b.columns, rows |-> a.rows \o b.rows]

\* the messages of the errors raised (lines 108, 226, 242)
DownloadError == "RuntimeError: Failed to download"

SchemaError == "RuntimeError: Expected column GAME_ID not found"

NoGamesError == "RuntimeError: Couldn't find Bulls-Jazz playoff games"

\* an uncaught exception ends the process with status 1
Raised(message) == [exit |-> 1, raised |-> message]

\* the status of GET url
Status(url) ==
    IF url \in DOMAIN remote.archives THEN remote.archives[url].status ELSE 404

\* lines 109-117: the table in the archive a response carries
Body(url) ==
    IF url \in DOMAIN remote.archives THEN remote.archives[url].frame ELSE NoFrame

\* every response is accepted
AcceptedAny(status) == TRUE

\* line 107: whether a response is accepted
Accepted(status) == status = 200

(***************************************************************************)
(* load_nba_data (lines 54-134), in_memory and use_pandas.                 *)
(***************************************************************************)
\* lines 77-85
BuildKeys ==
    /\ pc = "keys"
    /\ need_data' = BuildNeedData(cfg.data, cfg.seasons, cfg.seasontype)
    /\ pc' = "manifest"
    /\ UNCHANGED <<cfg, remote, need_name, need_element, fetchlog, table, files,
                   team_sets, todo, finals_gids, searched, game6_candidates,
                   report, result>>

\* lines 87-103
ReadManifest ==
    /\ pc = "manifest"
    /\ need_name' = NeedName(remote.manifest, need_data)
    /\ need_element' = NeedElement(remote.manifest, need_data)
    /\ table' = NoFrame
    /\ todo' = 1
    /\ pc' = "fetch"
    /\ UNCHANGED <<cfg, remote, need_data, fetchlog, files, team_sets,
                   finals_gids, searched, game6_candidates, report, result>>

\* lines 105-120: one iteration of the download loop
Fetch ==
    /\ pc = "fetch"
    /\ todo <= Len(need_name)
    /\ LET name == need_name[todo]
           url == need_element[todo]
           status == Status(url)
       IN  /\ fetchlog' = Append(fetchlog, [name |-> name, url |-> url, status |-> status])
           /\ IF Accepted(status)
              THEN /\ table' = ConcatFrames(table, Tagged(Body(url), name))
                   /\ todo' = todo + 1
                   /\ UNCHANGED <<pc, result>>
              ELSE /\ pc' = "error"
                   /\ result' = Raised(DownloadError)
                   /\ UNCHANGED <<table, todo>>
    /\ UNCHANGED <<cfg, remote, need_data, need_name, need_element, files,
                   team_sets, finals_gids, searched, game6_candidates, report>>

\* line 134
LoadReturn ==
    /\ pc = "fetch"
    /\ todo > Len(need_name)
    /\ pc' = "loaded"
    /\ UNCHANGED <<cfg, remote, need_data, need_name, need_element, fetchlog, table,
                   files, team_sets, todo, finals_gids, searched, game6_candidates,
                   report, result>>

(***************************************************************************)
(* main (lines 209-284).                                                   *)
(***************************************************************************)
PreviewRows == 6

WindowSeconds == 120

LastPeriod == 4

\* lines 210-223: the call of load_nba_data
MainStart ==
    /\ pc = "start"
    /\ cfg' = [cfg EXCEPT !.seasons = IF cfg.INCLUDE_9798 THEN SEASONS \o <<1997>> ELSE SEASONS,
                          !.data = DATA_TYPES,
                          !.seasontype = SEASON_TYPE]
    /\ pc' = "keys"
    /\ UNCHANGED <<remote, need_data, need_name, need_element, fetchlog, table, files,
                   team_sets, todo, finals_gids, searched, game6_candidates,
                   report, result>>

\* line 228
SortMain(rows) ==
    SortValues(rows, [i \in DOMAIN rows |->
                        <<rows[i].GAME_ID, rows[i].PERIOD, rows[i].EVENTNUM>>])

\* lines 225-228
Normalise ==
    /\ pc = "loaded"
    /\ IF "GAME_ID" \notin table.columns
       THEN /\ pc' = "error"
            /\ result' = Raised(SchemaError)
            /\ UNCHANGED <<table, todo>>
       ELSE /\ table' = [table EXCEPT !.rows = SortMain(table.rows)]
            /\ todo' = 1
            /\ pc' = "seasons"
            /\ UNCHANGED result
    /\ UNCHANGED <<cfg, remote, need_data, need_name, need_element, fetchlog, files,
                   team_sets, finals_gids, searched, game6_candidates, report>>

\* lines 231-236: one iteration of the loop over the seasons
WriteSeason ==
    /\ pc = "seasons"
    /\ todo <= Len(cfg.seasons)
    /\ files' = (SeasonFile(cfg.seasons[todo]) :> SeasonRows(table.rows, cfg.seasons[todo]))
                @@ files
    /\ todo' = todo + 1
    /\ UNCHANGED <<pc, cfg, remote, need_data, need_name, need_element, fetchlog, table,
                   team_sets, finals_gids, searched, game6_candidates, report, result>>

\* line 239
df_9697 == [columns |-> table.columns, rows |-> SeasonRows(table.rows, 1996)]

\* the run never aborts for want of games
NoFinalsNever(gids) == FALSE

\* line 241: the test that aborts the run
NoFinals(gids) == gids = <<>>

\* lines 239-242
Classify ==
    /\ pc = "seasons"
    /\ todo > Len(cfg.seasons)
    /\ team_sets' = collect_team_abbrevs(df_9697)
    /\ finals_gids' = finals_game_ids_1997(df_9697)
    /\ IF NoFinals(finals_gids')
       THEN /\ pc' = "error"
            /\ result' = Raised(NoGamesError)
       ELSE /\ pc' = "finals"
            /\ UNCHANGED result
    /\ UNCHANGED <<cfg, remote, need_data, need_name, need_element, fetchlog, table,
                   files, todo, searched, game6_candidates, report>>

\* line 244
df_finals ==
    [columns |-> df_9697.columns,
     rows |-> Filter(df_9697.rows,
                     [i \in DOMAIN df_9697.rows |-> df_9697.rows[i].GAME_ID \in Range(finals_gids)])]

\* lines 244-248
WriteFinals ==
    /\ pc = "finals"
    /\ files' = (FinalsFile :> df_finals.rows) @@ files
    /\ todo' = 1
    /\ pc' = "kerr"
    /\ UNCHANGED <<cfg, remote, need_data, need_name, need_element, fetchlog, table,
                   team_sets, finals_gids, searched, game6_candidates, report, result>>

\* line 255
WholeGame(gid) == [columns |-> df_finals.columns, rows |-> GameRows(df_finals.rows, gid)]

\* lines 257-261: the rows of the last two minutes of regulation
Window(g) ==
    IF "PCTIMESTRING" \in g.columns
    THEN LET clocked == Filter(g.rows, [i \in DOMAIN g.rows |->
                            /\ g.rows[i].PERIOD = LastPeriod
                            /\ MatchClock(AsStr(g.rows[i].PCTIMESTRING))])
             timed == [i \in DOMAIN clocked |->
                        [clocked[i] EXCEPT !["__sec_left"] = SecLeft(clocked[i].PCTIMESTRING)]]
         IN  [columns |-> g.columns \cup {"__sec_left"},
              rows |-> Filter(timed, [i \in DOMAIN timed |->
                                        timed[i]["__sec_left"] <= WindowSeconds])]
    ELSE g

\* the window is searched even when it is empty
SearchWindowOnly(g, whole) == g

\* line 262: the chunk handed to find_kerr_make_in_game
SearchInput(g, whole) == IF g.rows # <<>> THEN g ELSE whole

\* lines 254-265: one iteration of the loop over the finals games
KerrGame ==
    /\ pc = "kerr"
    /\ todo <= Len(finals_gids)
    /\ LET gid == finals_gids[todo]
           g == Window(WholeGame(gid))
           input == SearchInput(g, WholeGame(gid))
           hit == find_kerr_make_in_game(input)
           tagged == [i \in DOMAIN hit |-> [hit[i] EXCEPT !["__GAME_ID"] = gid]]
       IN  /\ searched' = Append(searched, [gid |-> gid, input |-> input])
           /\ game6_candidates' =
                IF hit # <<>>
                THEN Append(game6_candidates,
                            [columns |-> input.columns \cup {"__GAME_ID"}, rows |-> tagged])
                ELSE game6_candidates
    /\ todo' = todo + 1
    /\ UNCHANGED <<pc, cfg, remote, need_data, need_name, need_element, fetchlog, table,
                   files, team_sets, finals_gids, report, result>>

\* lines 268-273
KerrHits(candidates) ==
    LET all == DropDuplicates(Concat([i \in DOMAIN candidates |-> candidates[i].rows]))
    IN  IF \E i \in DOMAIN candidates : "__sec_left" \in candidates[i].columns
        THEN SortValues(all, [i \in DOMAIN all |->
                <<all[i]["__GAME_ID"], all[i]["__sec_left"], all[i].EVENTNUM>>])
        ELSE SortValues(all, [i \in DOMAIN all |-> <<all[i]["__GAME_ID"], all[i].EVENTNUM>>])

\* line 279
Preview(hits) == TailRows(hits, PreviewRows)

\* a run without hits fails
ExitCodeStrict(candidates) == IF candidates = <<>> THEN 1 ELSE 0

\* line 284
ExitCode(candidates) == 0

\* lines 267-284
Report ==
    /\ pc = "kerr"
    /\ todo > Len(finals_gids)
    /\ report' = IF game6_candidates # <<>>
                 THEN [kind |-> "preview", rows |-> Preview(KerrHits(game6_candidates))]
                 ELSE [kind |-> "warning", rows |-> <<>>]
    /\ result' = [exit |-> ExitCode(game6_candidates), raised |-> ""]
    /\ pc' = "done"
    /\ UNCHANGED <<cfg, remote, need_data, need_name, need_element, fetchlog, table,
                   files, team_sets, todo, finals_gids, searched, game6_candidates>>

(***************************************************************************)
(* The remote side: manifests and archives.                                *)
(***************************************************************************)
Row2(gid, ev, mt, per, clk, home, vis, name, city, team, team2) ==
    [GAME_ID |-> gid, EVENTNUM |-> ev, EVENTMSGTYPE |-> mt, PERIOD |-> per,
     PCTIMESTRING |-> clk, HOMEDESCRIPTION |-> home, VISITORDESCRIPTION |-> vis,
     PLAYER1_NAME |-> name, PLAYER1_TEAM_CITY |-> city,
     PLAYER1_TEAM_ABBREVIATION |-> team, PLAYER2_TEAM_ABBREVIATION |-> team2,
     __archive_name |-> NA, __sec_left |-> NaN, __GAME_ID |-> NaN]

\* a play of one player
Row(gid, ev, mt, per, clk, home, vis, name, city, team) ==
    Row2(gid, ev, mt, per, clk, home, vis, name, city, team, NA)

CsvColumns == {"GAME_ID", "EVENTNUM", "EVENTMSGTYPE", "PERIOD", "PCTIMESTRING",
               "HOMEDESCRIPTION", "VISITORDESCRIPTION", "PLAYER1_NAME",
               "PLAYER1_TEAM_CITY", "PLAYER1_TEAM_ABBREVIATION",
               "PLAYER2_TEAM_ABBREVIATION"}

TeamColumns == {"PLAYER1_TEAM_CITY", "PLAYER1_TEAM_ABBREVIATION",
                "PLAYER2_TEAM_ABBREVIATION"}

\* sequences of at most n elements of S
SeqsUpTo(S, n) == UNION {[1..k -> S] : k \in 0..n}

Url96 == "https://h/po96.xz"

Url97 == "https://h/po97.xz"

UrlRg96 == "https://h/rg96.xz?raw=true"

UrlPbp96 == "https://h/pbp96.xz"

ManifestPool == {"nbastats_po_1996=" \o Url96,
                 "nbastats_po_1997=" \o Url97,
                 "nbastats_1996=" \o UrlRg96,
                 "pbpstats_1996=" \o UrlPbp96,
                 "# datasets"}

\* the text of a manifest file
ManifestText(lines) == Join("\n", lines) \o "\n"

FullManifest == ManifestText(<<"nbastats_1996=" \o UrlRg96,
                               "nbastats_po_1996=" \o Url96,
                               "nbastats_po_1997=" \o Url97>>)

MainManifests == {FullManifest,
                  ManifestText(<<"nbastats_1996=" \o UrlRg96, "nbastats_po_1997=" \o Url97>>)}

\* the 1996-97 playoff archive of Spec: game 1 and game 2, unsorted
Frame96(shots, kerr, uta, g1both, columns) ==
    [columns |-> columns,
     rows |->
        [i \in 1..shots |->
            Row(2, i, 1, 4, "0:3" \o Str(i), "Jordan makes 2-pt jumper", NA,
                "Michael Jordan", "Chicago", "CHI")]
        \o (IF kerr
            THEN <<Row(2, 50, 1, 4, "0:25", "Kerr makes 2-pt jumper", NA,
                       "Steve Kerr", "Chicago", "CHI")>>
            ELSE <<>>)
        \o (IF uta
            THEN <<Row2(2, 40, 2, 4, "0:28", NA, "Malone misses layup",
                        "Karl Malone", "Utah", "UTA", "CHI")>>
            ELSE <<>>)
        \o <<Row(1, 2, 2, 1, "7:00", NA, "Hardaway misses layup", "Tim Hardaway",
                 "Miami", IF g1both THEN "UTA" ELSE "MIA"),
             Row(1, 1, 1, 4, "0:40", "Jordan makes 2-pt jumper", NA,
                 "Michael Jordan", "Chicago", "CHI")>>]

\* the 1997-98 playoff archive: a Bulls-Jazz game of the next season
Frame97 ==
    [columns |-> CsvColumns,
     rows |-> <<Row(3, 1, 1, 4, "0:05", "Jordan makes 2-pt jumper", NA,
                    "Michael Jordan", "Chicago", "CHI"),
                Row(3, 2, 2, 4, "0:01", NA, "Stockton misses 3-pt", "John Stockton",
                    "Utah", "UTA")>>]

MainSchemas == {CsvColumns, CsvColumns \ {"PCTIMESTRING"}, CsvColumns \ {"GAME_ID"}}

Statuses == {200, 503}

Idle(start, c, r) ==
    /\ pc = start
    /\ cfg = c
    /\ remote = r
    /\ need_data = <<>>
    /\ need_name = <<>>
    /\ need_element = <<>>
    /\ fetchlog = <<>>
    /\ table = NoFrame
    /\ files = <<>>
    /\ team_sets = <<>>
    /\ todo = 1
    /\ finals_gids = <<>>
    /\ searched = <<>>
    /\ game6_candidates = <<>>
    /\ report = [kind |-> "none", rows |-> <<>>]
    /\ result = [exit |-> NaN, raised |-> ""]

MainCfg(include) ==
    [INCLUDE_9798 |-> include, seasons |-> <<>>, data |-> <<>>, seasontype |-> ""]

\* a run of the script
Init ==
    \E include \in BOOLEAN, m \in MainManifests, s96 \in Statuses, s97 \in Statuses,
       shots \in 0..MaxShots, kerr \in BOOLEAN, uta \in BOOLEAN, g1both \in BOOLEAN,
       columns \in MainSchemas :
        Idle("start", MainCfg(include),
             [manifest |-> m,
              archives |-> (Url96 :> [status |-> s96,
                                       frame |-> Frame96(shots, kerr, uta, g1both, columns)])
                           @@ (Url97 :> [status |-> s97, frame |-> Frame97])])

Next ==
    \/ MainStart
    \/ BuildKeys
    \/ ReadManifest
    \/ Fetch
    \/ LoadReturn
    \/ Normalise
    \/ WriteSeason
    \/ Classify
    \/ WriteFinals
    \/ KerrGame
    \/ Report

Spec == Init /\ [][Next]_vars

\* a run of the script on one archive holding the given table
InitOn(frame) ==
    Idle("start", MainCfg(FALSE),
         [manifest |-> FullManifest,
          archives |-> (Url96 :> [status |-> 200, frame |-> frame])])

\* team cells of a row: player 1's code, player 2's code, player 1's city
TeamCells == {<<"CHI", " uta", "Chicago">>, <<"CHI", NA, "Chicago">>, <<NA, NA, "Chicago">>}

\* description cells of a row: home, visitor
DescCells == {<<NA, NA>>, <<"CHI at UTA", NA>>, <<"Utah ball", "vs CHI.">>}

TeamRowPool ==
    {Row2(g, 1, 2, 1, "5:00", NA, NA, "Michael Jordan", t[3], t[1], t[2]) :
        g \in {1, 2}, t \in TeamCells}
    \cup
    {Row2(g, 1, 2, 1, "5:00", d[1], d[2], "Michael Jordan", NA, NA, NA) :
        g \in {1, 2}, d \in DescCells}

\* runs on tables that vary the team and description cells
InitTeams ==
    \E rows \in SeqsUpTo(TeamRowPool, MaxTeamRows),
       columns \in {CsvColumns, CsvColumns \ TeamColumns} :
        InitOn([columns |-> columns, rows |-> rows])

SpecTeams == InitTeams /\ [][Next]_vars

ClockCells == {<<4, "0:25">>, <<4, "2:00">>, <<4, "2:01">>, <<3, "0:25">>, <<4, NA>>,
               <<4, "1:5">>}

PlayCells == {<<"Steve Kerr", "Kerr makes 2-pt jumper">>,
              <<"Michael Jordan", "Jordan makes 2-pt jumper">>,
              <<"Steve Kerr", "Kerr misses 3-pt">>,
              <<"John Stockton", "Stockton turnover">>}

KerrRowPool ==
    {Row(1, 9, 1, c[1], c[2], p[2], NA, p[1], "Chicago", "CHI") :
        c \in ClockCells, p \in PlayCells}

TipOff == <<Row(1, 1, 2, 1, "12:00", NA, NA, "Karl Malone", "Utah", "UTA"),
            Row(1, 2, 2, 1, "11:40", NA, NA, "Scottie Pippen", "Chicago", "CHI")>>

\* runs on one Bulls-Jazz game that vary period, clock, player and description
InitKerr ==
    \E rows \in SeqsUpTo(KerrRowPool, MaxKerrRows),
       columns \in {CsvColumns, CsvColumns \ {"PCTIMESTRING"}} :
        InitOn([columns |-> columns,
                rows |-> TipOff \o [i \in DOMAIN rows |-> [rows[i] EXCEPT !.EVENTNUM = 2 + i]]])

SpecKerr == InitKerr /\ [][Next]_vars

ResolveCfgs ==
    {[INCLUDE_9798 |-> FALSE, seasons |-> s, data |-> d, seasontype |-> t] :
        s \in {<<1996>>, <<1996, 1997>>},
        d \in {<<"nbastats">>, <<"nbastats", "pbpstats">>},
        t \in {"rg", "po", "all"}}

OneRow == [columns |-> CsvColumns, rows |-> <<TipOff[1]>>]

\* calls of load_nba_data
InitResolve ==
    \E c \in ResolveCfgs, lines \in SeqsUpTo(ManifestPool, MaxLines) :
        Idle("keys", c,
             [manifest |-> ManifestText(lines),
              archives |-> [u \in {Url96, Url97, UrlRg96, UrlPbp96} |->
                              [status |-> 200, frame |-> OneRow]]])

NextResolve ==
    \/ BuildKeys
    \/ ReadManifest
    \/ Fetch
    \/ LoadReturn

SpecResolve == InitResolve /\ [][NextResolve]_vars

(***************************************************************************)
(* Properties.                                                             *)
(***************************************************************************)
\* matchup classification has run
Classified == pc \in {"finals", "kerr", "done"} \/ result.raised = NoGamesError

\* some explicit team-code cell of the game reads as the code
CellReads(gid, code) ==
    \E i \in DOMAIN df_9697.rows : \E c \in TeamColumns \cap df_9697.columns :
        /\ df_9697.rows[i].GAME_ID = gid
        /\ df_9697.rows[i][c] # NA
        /\ Strip(Upper(df_9697.rows[i][c])) = code

\* C1: a game is returned by finals_game_ids_1997 exactly when both CHI and UTA
\* are in the set collect_team_abbrevs derived for it; a game whose team-code
\* cells hold both codes is returned, a game without UTA in its set is not.
C1_MatchIffBothCodes ==
    Classified =>
        /\ Range(finals_gids) \subseteq GroupKeys(df_9697.rows)
        /\ DOMAIN team_sets = GroupKeys(df_9697.rows)
        /\ \A gid \in GroupKeys(df_9697.rows) :
            /\ (gid \in Range(finals_gids)) <=>
                    ("CHI" \in team_sets[gid] /\ "UTA" \in team_sets[gid])
            /\ (CellReads(gid, "CHI") /\ CellReads(gid, "UTA")) => gid \in Range(finals_gids)
            /\ ("UTA" \notin team_sets[gid]) => gid \notin Range(finals_gids)

\* one game matched by its team-code cells, another with only CHI left out
C1_Witness ==
    /\ Classified
    /\ \E g1 \in DOMAIN team_sets, g2 \in DOMAIN team_sets :
        /\ CellReads(g1, "CHI") /\ CellReads(g1, "UTA") /\ g1 \in Range(finals_gids)
        /\ team_sets[g2] = {"CHI"} /\ g2 \notin Range(finals_gids)

\* C2: a GET that returns a status other than 200 aborts the run at that
\* archive: it is the last request, nothing is requested twice, and no output
\* file exists; whenever an output file exists every archive was fetched.
C2_FailedFetchAborts ==
    /\ (\E i \in DOMAIN fetchlog : fetchlog[i].status # 200) =>
        /\ pc = "error"
        /\ result = Raised(DownloadError)
        /\ \A i \in DOMAIN fetchlog : (fetchlog[i].status # 200) <=> (i = Len(fetchlog))
        /\ DOMAIN files = {}
    /\ \A i \in DOMAIN fetchlog : \A j \in DOMAIN fetchlog :
        (fetchlog[i].name = fetchlog[j].name) => (i = j)
    /\ (DOMAIN files # {}) =>
        /\ Len(fetchlog) = Len(need_name)
        /\ \A i \in DOMAIN fetchlog : fetchlog[i].status = 200

\* the first of two resolved archives fails: the second is never requested
C2_Witness ==
    /\ pc = "error"
    /\ Len(need_name) = 2
    /\ Len(fetchlog) = 1
    /\ fetchlog[1].status = 503
    /\ DOMAIN files = {}

AllSeasonFiles == {SeasonFile(cfg.seasons[i]) : i \in DOMAIN cfg.seasons}

C10_WriteOrder ==
    /\ Classified => AllSeasonFiles \subseteq DOMAIN files
    /\ (FinalsFile \in DOMAIN files) => (Classified /\ finals_gids # <<>>)
    /\ (result.raised = NoGamesError) => (DOMAIN files = AllSeasonFiles)
    /\ (result.raised \in {SchemaError, DownloadError}) => (DOMAIN files = {})

\* the "no games" abort of a two-season run, both season files written
C10_Witness ==
    /\ result.raised = NoGamesError
    /\ Cardinality(DOMAIN files) = 2
    /\ FinalsFile \notin DOMAIN files

\* a row without its derived cells
Raw(r) == [r EXCEPT !["__sec_left"] = NaN, !["__GAME_ID"] = NaN]

RawRows(rows) == [i \in DOMAIN rows |-> Raw(rows[i])]

\* the rows of a game in the matchup file
FileGame(gid) == GameRows(files[FinalsFile], gid)

\* the rows of a game in the fourth period with a clock of at most two minutes:
\* of the clocks in the tables, "0:25" and "2:00" are; "2:01" is later, "1:5"
\* and an empty cell are no mm:ss clock
LastTwoMinutes(gid) ==
    Filter(FileGame(gid), [i \in DOMAIN FileGame(gid) |->
        /\ FileGame(gid)[i].PERIOD = 4
        /\ FileGame(gid)[i].PCTIMESTRING \in {"0:25", "2:00"}])

\* C6: with the clock column present, find_kerr_make_in_game gets all rows of
\* the game when no row lies in the last two minutes of period 4, and only the
\* rows of that window otherwise.
C6_WindowOrWholeGame ==
    \A k \in DOMAIN searched :
        ("PCTIMESTRING" \in table.columns) =>
            IF LastTwoMinutes(searched[k].gid) = <<>>
            THEN searched[k].input.rows = FileGame(searched[k].gid)
            ELSE /\ RawRows(searched[k].input.rows) = LastTwoMinutes(searched[k].gid)
                 /\ \A i \in DOMAIN searched[k].input.rows :
                        searched[k].input.rows[i]["__sec_left"] \in 0..120

\* a game with rows but none in the window: the whole game is searched
C6_Witness ==
    \E k \in DOMAIN searched :
        /\ "PCTIMESTRING" \in table.columns
        /\ LastTwoMinutes(searched[k].gid) = <<>>
        /\ Len(FileGame(searched[k].gid)) > 2
        /\ searched[k].input.rows = FileGame(searched[k].gid)

\* the 1996 playoff rows of one game
Game9697(gid) == GameRows(df_9697.rows, gid)

\* a description column of the game mentions the word
DescMentions(gid, word) ==
    \E d \in Range(Present(DESC_COLS, df_9697.columns)) :
        HasWord(DescText(Game9697(gid), d), word)

\* C4: for a game whose explicit team-code columns yield no code, the derived
\* set holds CHI when a description mentions CHI as a delimited token and UTA
\* when one mentions UTA or UTAH, and nothing else; the descriptions are
\* consulted only for such a game.
C4_FallbackFromDescriptions ==
    Classified =>
        \A gid \in DOMAIN team_sets :
            IF ExplicitCodes(df_9697, Game9697(gid)) = {}
            THEN /\ DescMentions(gid, "CHI") => "CHI" \in team_sets[gid]
                 /\ (DescMentions(gid, "UTA") \/ DescMentions(gid, "UTAH")) =>
                        "UTA" \in team_sets[gid]
                 /\ team_sets[gid] \subseteq {"CHI", "UTA"}
            ELSE team_sets[gid] = ExplicitCodes(df_9697, Game9697(gid))

\* the name=url entry of a manifest line: the text before and after the first "="
Entry(line) ==
    [name |-> SubSeq(line, 1, FirstIndex("=", line) - 1),
     url |-> SubSeq(line, FirstIndex("=", line) + 1, Len(line))]

\* the entries of the manifest whose name is needed, in manifest order
NeededEntries ==
    LET lines == ManifestLines(remote.manifest)
        entries == [i \in DOMAIN lines |-> Entry(lines[i])]
    IN  Filter(entries, [i \in DOMAIN entries |-> entries[i].name \in Range(need_data)])

Requested == [i \in DOMAIN fetchlog |-> [name |-> fetchlog[i].name, url |-> fetchlog[i].url]]

\* C5: the (name, url) pairs fetched are exactly the manifest entries whose
\* name is a needed identifier, in manifest order, each with the url of its
\* own line.
C5_FetchedAreManifestEntries ==
    /\ (pc \in {"fetch", "error", "loaded"}) =>
            /\ Len(Requested) <= Len(NeededEntries)
            /\ Requested = SubSeq(NeededEntries, 1, Len(Requested))
    /\ (pc = "loaded") => Requested = NeededEntries

\* C8: for 'rg' the needed identifiers are the <data>_<season> of the
\* cross-product, for 'po' the <data>_po_<season>, and for both season types
\* the two lists together, twice as many entries.
C8_NeedData ==
    LET prod == Product(cfg.data, cfg.seasons)
        rg == {prod[k][1] \o "_" \o Str(prod[k][2]) : k \in DOMAIN prod}
        po == {prod[k][1] \o "_po_" \o Str(prod[k][2]) : k \in DOMAIN prod}
    IN  (pc # "keys") =>
            IF cfg.seasontype = "rg"
            THEN Range(need_data) = rg /\ Len(need_data) = Len(prod)
            ELSE IF cfg.seasontype = "po"
            THEN Range(need_data) = po /\ Len(need_data) = Len(prod)
            ELSE Range(need_data) = rg \cup po /\ Len(need_data) = 2 * Len(prod)

\* the name or description cells of the row mention Kerr
MentionsKerr(r) ==
    \E c \in {"PLAYER1_NAME", "HOMEDESCRIPTION", "VISITORDESCRIPTION"} :
        HasWord(Upper(AsStr(r[c])), "KERR")

\* a description cell of the row speaks of a made shot
MadeShotLanguage(r) ==
    \E c \in {"HOMEDESCRIPTION", "VISITORDESCRIPTION"} :
        HasWord(Upper(AsStr(r[c])), "MAKES") \/ HasWord(Upper(AsStr(r[c])), "MADE")

\* C9: every row find_kerr_make_in_game returns mentions Kerr and carries
\* made-shot language.
C9_HitsAreKerrMakes ==
    \A k \in DOMAIN game6_candidates : \A i \in DOMAIN game6_candidates[k].rows :
        /\ MentionsKerr(game6_candidates[k].rows[i])
        /\ MadeShotLanguage(game6_candidates[k].rows[i])

\* the Kerr row of the end-to-end example
IsKerrShot(r) ==
    /\ r.PLAYER1_NAME = "Steve Kerr"
    /\ r.HOMEDESCRIPTION = "Kerr makes 2-pt jumper"
    /\ r.PCTIMESTRING = "0:25"
    /\ r.PERIOD = 4

\* C7: on a successful run the matchup file holds exactly the 1996 playoff rows
\* of the matched games, and a matched game's row "Steve Kerr", "makes 2-pt
\* jumper", clock 0:25, period 4 is among the at most six rows of the preview.
C7_MatchupFileAndPreview ==
    (pc = "done") =>
        /\ files[FinalsFile] =
             Filter(df_9697.rows, [i \in DOMAIN df_9697.rows |->
                        IsMatch(team_sets[df_9697.rows[i].GAME_ID])])
        /\ Len(report.rows) <= 6
        /\ \A i \in DOMAIN files[FinalsFile] :
                IsKerrShot(files[FinalsFile][i]) =>
                    \E j \in DOMAIN report.rows : Raw(report.rows[j]) = files[FinalsFile][i]

====
